---- MODULE Spec2Model ----
(***************************************************************************)
(* A model of the MOROS telnet client (src/usr/telnet.rs): the target      *)
(* parser Connection::parse, the negotiation engine handle_iac with the    *)
(* byte loop of main that drives it, and the session pump of main.         *)
(*                                                                         *)
(* Byte strings are sequences of numbers 0..255, text is a sequence of     *)
(* one-character strings.  Cursors are 0-based as in the source; At(d, k)  *)
(* is the source's d[k].                                                   *)
(***************************************************************************)
EXTENDS Integers, Sequences, FiniteSets, TLC

\* ------------------------------------------------------------------ bounds
\* Longest inbound chunk one read returns (buf_len of main).
MaxLen == 4
\* Longest line read from the local input.
MaxLine == 2
\* Most arguments after the program name.
MaxArgs == 3
\* Longest target string given to Connection::parse on its own.
MaxUrl == 6
\* Most pieces a chunk given to the byte loop on its own is put together from.
MaxPieces == 3

\* --------------------------------------------------- telnet command bytes
BYTE_IAC == 255
BYTE_DONT == 254
BYTE_DO == 253
BYTE_WONT == 252
BYTE_WILL == 251
BYTE_SB == 250
BYTE_SE == 240
BYTE_TERMINAL_TYPE == 24
BYTE_SUPPRESS_LOCAL_ECHO == 1

\* Bytes written by println!() and produced by replace("\n", "\r\n").
LF == 10
CR == 13

\* The bytes an inbound chunk is drawn from: every byte handle_iac tests for
\* and one ordinary data byte ('A').
ChunkBytes ==
    {BYTE_IAC, BYTE_DO, BYTE_WILL, BYTE_WONT,
     BYTE_TERMINAL_TYPE, BYTE_SUPPRESS_LOCAL_ECHO, 65}

\* The bytes a local line is drawn from: 'a', the line terminator and a
\* carriage return.
LineBytes == {97, LF, CR}

\* All sequences over S of length 0..n.
SeqUpTo(S, n) == UNION {[1..k -> S] : k \in 0..n}

Chunks == SeqUpTo(ChunkBytes, MaxLen)

\* Longer chunks, for the byte loop on its own: put together from the three
\* commands handle_iac answers, a command it does not, an IAC alone, an IAC
\* with its verb alone, and a data byte.
ChunkPieces ==
    {<<BYTE_IAC, BYTE_DO, BYTE_TERMINAL_TYPE>>,
     <<BYTE_IAC, BYTE_WILL, BYTE_SUPPRESS_LOCAL_ECHO>>,
     <<BYTE_IAC, BYTE_WONT, BYTE_SUPPRESS_LOCAL_ECHO>>,
     <<BYTE_IAC, BYTE_DO, BYTE_SUPPRESS_LOCAL_ECHO>>,
     <<BYTE_IAC>>,
     <<BYTE_IAC, BYTE_WILL>>,
     <<65>>}
RECURSIVE Concat(_)
Concat(ps) == IF ps = <<>> THEN <<>> ELSE Head(ps) \o Concat(Tail(ps))
PieceChunks == {Concat(ps) : ps \in SeqUpTo(ChunkPieces, MaxPieces)}

\* Text is a sequence of one-character strings.  The characters a target
\* string is drawn from: a letter, the colon, the sign u16's parser accepts,
\* and digits enough to write numbers on both sides of 65535.
UrlChars == {"h", ":", "+", "0", "3", "5", "6"}
Urls == SeqUpTo(UrlChars, MaxUrl)

\* The command-line arguments main is given after the program name: the
\* options it knows (short forms, and one long form), one it does not, the
\* empty string, a host name with a port and an address literal.
ArgTokens ==
    {<<"-", "h">>, <<"-", "v">>, <<"-", "t">>, <<"-", "-", "t", "i", "m", "e", "o", "u", "t">>,
     <<"-", "x">>, <<>>, <<"h", ":", "5">>, <<"3">>, <<"h", "^2">>}
ArgLists == {<<(<<"t", "e", "l", "n", "e", "t">>)>> \o rest : rest \in SeqUpTo(ArgTokens, MaxArgs)}
Lines == SeqUpTo(LineBytes, MaxLine)

\* d[k] of the source (0-based).
At(d, k) == d[k + 1]

VARIABLES
    pc,         \* position in main: "args", "parse", "resolve", "info", "open",
                \* "connect", "loop", "engine", "closing", "done", "panicked"
    args,       \* main's argument list
    host,       \* main's local `host`
    target,     \* the string Connection::parse was given
    port,       \* the port Connection::parse returned
    verbose,    \* main's local `is_verbose`
    addrFrom,   \* how main's local `addr` was obtained: "none", "literal", "resolver"
    etx,        \* the console reports end-of-text or end-of-transmission
    peerClosed, \* the remote end has closed the connection
    split,      \* the command prefix the previous chunk ended with, when recorded
    line,       \* the line read from the local input in the current iteration
    handle,     \* the connection handle: "none", "open", "closed"
    opens,      \* number of successful syscall::open calls
    closes,     \* number of syscall::close calls
    connects,   \* number of syscall::connect calls
    connected,  \* main's local `connected`
    echo,       \* the console's echo flag (enable_echo / disable_echo)
    echoWas,    \* the echo flag before the latest iteration of the byte loop
    data,       \* the inbound chunk of the current iteration
    i,          \* the cursor of the byte loop over data
    display,    \* bytes written to stdout in the current iteration
    wire,       \* writes issued on the socket in the current iteration, one entry per write
    branch,     \* the branch the current iteration took
    rd,         \* the socket read of the current iteration
    misuse,     \* some operation was issued on a handle that was not open
    result,     \* what main returned: "none" while running
    diag,       \* number of error! lines printed
    why         \* the last message printed: "none", "help" or the error

vars == <<pc, args, host, target, port, verbose, addrFrom, peerClosed, etx, split, line, handle, opens, closes, connects,
          connected, echo, echoWas, data, i, display, wire, branch, rd, misuse,
          result, diag, why>>

\* The variables of the session: everything from the open of the device on.
session == <<handle, opens, closes, connects, connected, echo, echoWas, data, i,
             display, wire, branch, rd, misuse>>

\* ------------------------------------------------------ negotiation engine
\* Mutant of TerminalTypeResponse: the 0 (IS) byte after TERMINAL_TYPE is left out.
TerminalTypeResponseNoIs ==
    <<BYTE_IAC, BYTE_SB, BYTE_TERMINAL_TYPE,
      88, 84, 69, 82, 77, 45, 50, 53, 54, 67, 79, 76, 79, 82,
      BYTE_IAC, BYTE_SE>>

\* The response to IAC DO TERMINAL_TYPE: IAC SB TERMINAL_TYPE 0 "XTERM-256COLOR" IAC SE.
TerminalTypeResponse ==
    <<BYTE_IAC, BYTE_SB, BYTE_TERMINAL_TYPE, 0,
      88, 84, 69, 82, 77, 45, 50, 53, 54, 67, 79, 76, 79, 82,
      BYTE_IAC, BYTE_SE>>

\* Mutant of HasCommandPair: the bound is off by one, so a pair whose second
\* byte lies just past the buffer is accepted.
HasCommandPairOffByOne(d, k) == At(d, k) = BYTE_IAC /\ k + 2 <= Len(d)

\* The guard of handle_iac: an IAC byte with two more bytes inside the buffer.
HasCommandPair(d, k) == At(d, k) = BYTE_IAC /\ k + 2 < Len(d)

\* Mutant of IsTerminalTypeQuery: WILL TERMINAL_TYPE is taken for the query too.
IsTerminalTypeQueryAnyVerb(c, o) ==
    c \in {BYTE_DO, BYTE_WILL} /\ o = BYTE_TERMINAL_TYPE

\* The three arms of handle_iac's match, by the pair they match.
IsTerminalTypeQuery(c, o) == c = BYTE_DO /\ o = BYTE_TERMINAL_TYPE
IsEchoSuppressRequest(c, o) == c = BYTE_WILL /\ o = BYTE_SUPPRESS_LOCAL_ECHO
IsEchoSuppressWithdraw(c, o) == c = BYTE_WONT /\ o = BYTE_SUPPRESS_LOCAL_ECHO

\* sys::console::disable_echo() and enable_echo(): the echo flag after the call.
DisableEcho(e) == FALSE
EnableEcho(e) == TRUE

\* Mutant of IacArm: the WONT arm is a copy of the WILL arm with only the
\* echo call changed, so it answers DO instead of DONT.
IacArmCopiedAck(c, o, k, e) ==
    IF IsTerminalTypeQuery(c, o) THEN
        [ret |-> TRUE, i |-> k + 2, out |-> <<TerminalTypeResponse>>, echo |-> e]
    ELSE IF IsEchoSuppressRequest(c, o) THEN
        [ret |-> TRUE, i |-> k + 2,
         out |-> <<(<<BYTE_IAC, BYTE_DO, BYTE_SUPPRESS_LOCAL_ECHO>>)>>,
         echo |-> DisableEcho(e)]
    ELSE IF IsEchoSuppressWithdraw(c, o) THEN
        [ret |-> TRUE, i |-> k + 2,
         out |-> <<(<<BYTE_IAC, BYTE_DO, BYTE_SUPPRESS_LOCAL_ECHO>>)>>,
         echo |-> EnableEcho(e)]
    ELSE
        [ret |-> FALSE, i |-> k, out |-> <<>>, echo |-> e]

\* Mutant of IacArm: a request is acknowledged only when it changes the echo
\* flag, so a repeated WILL or WONT is consumed without an answer.
IacArmAckOnChange(c, o, k, e) ==
    IF IsTerminalTypeQuery(c, o) THEN
        [ret |-> TRUE, i |-> k + 2, out |-> <<TerminalTypeResponse>>, echo |-> e]
    ELSE IF IsEchoSuppressRequest(c, o) THEN
        [ret |-> TRUE, i |-> k + 2,
         out |-> IF DisableEcho(e) # e
                 THEN <<(<<BYTE_IAC, BYTE_DO, BYTE_SUPPRESS_LOCAL_ECHO>>)>> ELSE <<>>,
         echo |-> DisableEcho(e)]
    ELSE IF IsEchoSuppressWithdraw(c, o) THEN
        [ret |-> TRUE, i |-> k + 2,
         out |-> IF EnableEcho(e) # e
                 THEN <<(<<BYTE_IAC, BYTE_DONT, BYTE_SUPPRESS_LOCAL_ECHO>>)>> ELSE <<>>,
         echo |-> EnableEcho(e)]
    ELSE
        [ret |-> FALSE, i |-> k, out |-> <<>>, echo |-> e]

\* Mutant of IacArm: an unrecognized pair is taken for a command all the
\* same, so its IAC byte is passed over instead of being left as data.
IacArmSwallowsUnrecognized(c, o, k, e) ==
    IF IsTerminalTypeQuery(c, o) THEN
        [ret |-> TRUE, i |-> k + 2, out |-> <<TerminalTypeResponse>>, echo |-> e]
    ELSE IF IsEchoSuppressRequest(c, o) THEN
        [ret |-> TRUE, i |-> k + 2,
         out |-> <<(<<BYTE_IAC, BYTE_DO, BYTE_SUPPRESS_LOCAL_ECHO>>)>>,
         echo |-> DisableEcho(e)]
    ELSE IF IsEchoSuppressWithdraw(c, o) THEN
        [ret |-> TRUE, i |-> k + 2,
         out |-> <<(<<BYTE_IAC, BYTE_DONT, BYTE_SUPPRESS_LOCAL_ECHO>>)>>,
         echo |-> EnableEcho(e)]
    ELSE
        [ret |-> TRUE, i |-> k, out |-> <<>>, echo |-> e]

\* Mutant of IacArm: an unrecognized pair is refused with IAC WONT and its
\* option, and its IAC byte left as data.
IacArmRefusesUnrecognized(c, o, k, e) ==
    IF IsTerminalTypeQuery(c, o) THEN
        [ret |-> TRUE, i |-> k + 2, out |-> <<TerminalTypeResponse>>, echo |-> e]
    ELSE IF IsEchoSuppressRequest(c, o) THEN
        [ret |-> TRUE, i |-> k + 2,
         out |-> <<(<<BYTE_IAC, BYTE_DO, BYTE_SUPPRESS_LOCAL_ECHO>>)>>,
         echo |-> DisableEcho(e)]
    ELSE IF IsEchoSuppressWithdraw(c, o) THEN
        [ret |-> TRUE, i |-> k + 2,
         out |-> <<(<<BYTE_IAC, BYTE_DONT, BYTE_SUPPRESS_LOCAL_ECHO>>)>>,
         echo |-> EnableEcho(e)]
    ELSE
        [ret |-> FALSE, i |-> k, out |-> <<(<<BYTE_IAC, BYTE_WONT, o>>)>>, echo |-> e]

\* What the arm of the match for the pair (c, o) does, with the cursor at k and
\* the echo flag e: the return value, the cursor on return, the writes issued
\* on the socket and the echo flag on return.
IacArm(c, o, k, e) ==
    IF IsTerminalTypeQuery(c, o) THEN
        [ret |-> TRUE, i |-> k + 2, out |-> <<TerminalTypeResponse>>, echo |-> e]
    ELSE IF IsEchoSuppressRequest(c, o) THEN
        [ret |-> TRUE, i |-> k + 2,
         out |-> <<(<<BYTE_IAC, BYTE_DO, BYTE_SUPPRESS_LOCAL_ECHO>>)>>,
         echo |-> DisableEcho(e)]
    ELSE IF IsEchoSuppressWithdraw(c, o) THEN
        [ret |-> TRUE, i |-> k + 2,
         out |-> <<(<<BYTE_IAC, BYTE_DONT, BYTE_SUPPRESS_LOCAL_ECHO>>)>>,
         echo |-> EnableEcho(e)]
    ELSE
        [ret |-> FALSE, i |-> k, out |-> <<>>, echo |-> e]

\* Mutant of HandleIac: an IAC with fewer than two bytes after it is taken
\* for an incomplete command and skipped instead of being left as data.
HandleIacSkipTruncated(d, k, e) ==
    IF HasCommandPair(d, k)
    THEN IacArm(At(d, k + 1), At(d, k + 2), k, e)
    ELSE IF At(d, k) = BYTE_IAC
    THEN [ret |-> TRUE, i |-> k, out |-> <<>>, echo |-> e]
    ELSE [ret |-> FALSE, i |-> k, out |-> <<>>, echo |-> e]

\* Mutant of HandleIac: the engine remembers the command prefix the previous
\* chunk ended with and completes it from the start of the next chunk.
HandleIacResuming(d, k, e) ==
    IF k = 0 /\ split.pending # <<>> /\ Len(d) >= 3 - Len(split.pending)
    THEN LET whole == split.pending \o d
             r == IacArm(whole[2], whole[3], k, e)
         IN  IF r.ret THEN [r EXCEPT !.i = r.i - Len(split.pending)]
             ELSE [ret |-> FALSE, i |-> k, out |-> <<>>, echo |-> e]
    ELSE IF HasCommandPair(d, k)
    THEN IacArm(At(d, k + 1), At(d, k + 2), k, e)
    ELSE [ret |-> FALSE, i |-> k, out |-> <<>>, echo |-> e]

\* handle_iac(data, &mut i, handle) with the echo flag e.
HandleIac(d, k, e) ==
    IF HasCommandPair(d, k)
    THEN IacArm(At(d, k + 1), At(d, k + 2), k, e)
    ELSE [ret |-> FALSE, i |-> k, out |-> <<>>, echo |-> e]

\* The highest index of the buffer that one iteration of the byte loop reads
\* with the cursor at k: data[*i] always, data[*i + 1] and data[*i + 2] when
\* the guard of handle_iac holds; the data[i] of main is read at the cursor.
HighestRead(d, k) == IF HasCommandPair(d, k) THEN k + 2 ELSE k

\* Indexing is bounds-checked: a read at or past data.len() panics.
InBounds(d, k) == k < Len(d)

\* ------------------------------------------------------------- liveness
\* Bit index of SocketStatus::MayRecv in the 1-byte socket status.
MayRecv == 6

GetBit(b, k) == (b \div (2 ^ k)) % 2 = 1

\* Mutant of IsClosed: the negation is dropped, so a set may-receive bit is
\* taken for the closure.
IsClosedWhenMayRecv(status) == GetBit(status, MayRecv)

\* is_closed(status)
IsClosed(status) == ~GetBit(status, MayRecv)

\* Status bytes a 1-byte status read may deliver: may-receive set or clear,
\* with and without another flag (bit 2).
StatusBytes == {0, 4, 2 ^ MayRecv, 2 ^ MayRecv + 4}

\* ---------------------------------------------------------- local input
\* Mutant of ReplaceNewlines: only the terminator of the line is translated.
ReplaceTerminator(s) ==
    IF s # <<>> /\ s[Len(s)] = LF
    THEN SubSeq(s, 1, Len(s) - 1) \o <<CR, LF>>
    ELSE s

\* str::replace("\n", "\r\n") on the bytes of a line.
RECURSIVE ReplaceNewlines(_)
ReplaceNewlines(s) ==
    IF s = <<>> THEN <<>>
    ELSE IF Head(s) = LF THEN <<CR, LF>> \o ReplaceNewlines(Tail(s))
    ELSE <<Head(s)>> \o ReplaceNewlines(Tail(s))

\* -------------------------------------------------------- target parser
DecDigits == {"0", "1", "2", "3", "4", "5", "6", "7", "8", "9"}

DigitValue(ch) ==
    CASE ch = "0" -> 0 [] ch = "1" -> 1 [] ch = "2" -> 2 [] ch = "3" -> 3
      [] ch = "4" -> 4 [] ch = "5" -> 5 [] ch = "6" -> 6 [] ch = "7" -> 7
      [] ch = "8" -> 8 [] ch = "9" -> 9

\* The largest u16.
U16Max == 65535
\* The port of ":23" and of unwrap_or(23).
DefaultPort == 23

\* Mutant of Find: the index of the last ch (str::rfind).
FindLast(s, ch) ==
    IF \E k \in 1..Len(s) : s[k] = ch
    THEN (CHOOSE k \in 1..Len(s) : s[k] = ch /\ \A j \in (k + 1)..Len(s) : s[j] # ch) - 1
    ELSE -1

\* str::find(ch): the 0-based index of the first ch in s, -1 for None.
Find(s, ch) ==
    IF \E k \in 1..Len(s) : s[k] = ch
    THEN (CHOOSE k \in 1..Len(s) : s[k] = ch /\ \A j \in 1..(k - 1) : s[j] # ch) - 1
    ELSE -1

\* str::split_at(k): the text before index k and the text from it on.
SplitAt(s, k) == <<SubSeq(s, 1, k), SubSeq(s, k + 1, Len(s))>>

\* The digit loop of u16's from_str: checked multiply by 10 and checked add
\* of each digit; -1 for Err (an invalid digit or an overflow).
RECURSIVE ParseDigits(_, _)
ParseDigits(t, acc) ==
    IF t = <<>> THEN acc
    ELSE IF Head(t) \notin DecDigits THEN -1
    ELSE IF acc * 10 > U16Max THEN -1
    ELSE IF acc * 10 + DigitValue(Head(t)) > U16Max THEN -1
    ELSE ParseDigits(Tail(t), acc * 10 + DigitValue(Head(t)))

\* str::parse::<u16>(): empty text and a lone sign are errors, one leading
\* '+' is accepted, '-' is an invalid digit of an unsigned type; -1 for Err.
ParseU16(t) ==
    IF t = <<>> THEN -1
    ELSE IF Len(t) = 1 /\ Head(t) \in {"+", "-"} THEN -1
    ELSE IF Head(t) = "+" THEN ParseDigits(Tail(t), 0)
    ELSE ParseDigits(t, 0)

\* Result::unwrap_or
UnwrapOr(r, default) == IF r = -1 THEN default ELSE r

\* Connection::parse(url)
ConnectionParse(url) ==
    LET k == Find(url, ":")
        pair == IF k >= 0 THEN SplitAt(url, k) ELSE <<url, <<":", "2", "3">>>>
        portText == Tail(pair[2])
    IN  [host |-> pair[1], port |-> UnwrapOr(ParseU16(portText), DefaultPort)]

\* ------------------------------------------------------- argument loop
OptHelp == {<<"-", "h">>, <<"-", "-", "h", "e", "l", "p">>}
OptVerbose == {<<"-", "v">>, <<"-", "-", "v", "e", "r", "b", "o", "s", "e">>}
OptTimeout == {<<"-", "t">>, <<"-", "-", "t", "i", "m", "e", "o", "u", "t">>}

StartsWithDash(a) == a # <<>> /\ Head(a) = "-"

\* Mutant of ArgLoop: the timeout option does not consume the argument after
\* it (the `i += 1` of its arm is missing), so its value is examined as an
\* argument of its own.
RECURSIVE ArgLoopValueExamined(_, _, _, _)
ArgLoopValueExamined(a, k, h, v) ==
    IF ~(k < Len(a)) THEN [out |-> "parsed", host |-> h, verbose |-> v]
    ELSE IF At(a, k) \in OptHelp THEN [out |-> "help", host |-> h, verbose |-> v]
    ELSE IF At(a, k) \in OptVerbose THEN ArgLoopValueExamined(a, k + 1, h, TRUE)
    ELSE IF At(a, k) \in OptTimeout THEN
        IF k + 1 < Len(a) THEN ArgLoopValueExamined(a, k + 1, h, v)
        ELSE [out |-> "missing_timeout", host |-> h, verbose |-> v]
    ELSE IF StartsWithDash(At(a, k)) THEN
        [out |-> "invalid_option", host |-> h, verbose |-> v]
    ELSE IF h = <<>> THEN ArgLoopValueExamined(a, k + 1, At(a, k), v)
    ELSE [out |-> "too_many", host |-> h, verbose |-> v]

\* The while loop over args from index k on, with the host and the verbosity
\* found so far: how it ends ("parsed", "help" or the error), and the locals.
RECURSIVE ArgLoop(_, _, _, _)
ArgLoop(a, k, h, v) ==
    IF ~(k < Len(a)) THEN [out |-> "parsed", host |-> h, verbose |-> v]
    ELSE IF At(a, k) \in OptHelp THEN [out |-> "help", host |-> h, verbose |-> v]
    ELSE IF At(a, k) \in OptVerbose THEN ArgLoop(a, k + 1, h, TRUE)
    ELSE IF At(a, k) \in OptTimeout THEN
        IF k + 1 < Len(a) THEN ArgLoop(a, k + 2, h, v)
        ELSE [out |-> "missing_timeout", host |-> h, verbose |-> v]
    ELSE IF StartsWithDash(At(a, k)) THEN
        [out |-> "invalid_option", host |-> h, verbose |-> v]
    ELSE IF h = <<>> THEN ArgLoop(a, k + 1, At(a, k), v)
    ELSE [out |-> "too_many", host |-> h, verbose |-> v]

\* char::is_numeric: the decimal digits and the other numeric characters of
\* Unicode, of which "^2" stands for the superscript two (U+00B2).
NumericChars == DecDigits \cup {"^2"}

\* host.ends_with(char::is_numeric)
EndsNumeric(h) == h # <<>> /\ h[Len(h)] \in NumericChars

\* ------------------------------------------------------------ the pump
\* The history of the previous chunk: not recorded, or the prefix of a
\* command handle_iac knows that the chunk ended with (empty when none).
NotRecorded == [on |-> FALSE, pending |-> <<>>]

\* The longest proper prefix of IAC DO TERMINAL_TYPE, IAC WILL
\* SUPPRESS_LOCAL_ECHO or IAC WONT SUPPRESS_LOCAL_ECHO that d ends with.
PendingPrefix(d) ==
    IF /\ Len(d) >= 2
       /\ d[Len(d) - 1] = BYTE_IAC
       /\ d[Len(d)] \in {BYTE_DO, BYTE_WILL, BYTE_WONT}
    THEN <<BYTE_IAC, d[Len(d)]>>
    ELSE IF Len(d) >= 1 /\ d[Len(d)] = BYTE_IAC THEN <<BYTE_IAC>>
    ELSE <<>>

NoRead == [kind |-> "none", n |-> 0, status |-> 0]

\* An operation is issued on the connection handle.
OnHandle == misuse' = (misuse \/ handle # "open")

\* A new loop iteration starts: the per-iteration records start empty.
FreshChunk == data' = <<>> /\ i' = 0

\* The state of everything from the open of the device on, before it.
NoSession ==
    /\ handle = "none"
    /\ opens = 0
    /\ closes = 0
    /\ connects = 0
    /\ connected = FALSE
    /\ echo = TRUE
    /\ echoWas = TRUE
    /\ data = <<>>
    /\ i = 0
    /\ display = <<>>
    /\ wire = <<>>
    /\ branch = "none"
    /\ rd = NoRead
    /\ misuse = FALSE

Init ==
    /\ pc = "args"
    /\ args \in ArgLists
    /\ host = <<>>
    /\ target = <<>>
    /\ port = 0
    /\ verbose = FALSE
    /\ addrFrom = "none"
    /\ peerClosed = FALSE
    /\ etx = FALSE
    /\ split = NotRecorded
    /\ line = <<>>
    /\ NoSession
    /\ result = "none"
    /\ diag = 0
    /\ why = "none"

\* main returns Err with one error! line: the locals go out of scope.
Fail(code, message) ==
    /\ result' = code
    /\ diag' = diag + 1
    /\ why' = message
    /\ pc' = "done"

\* The argument loop and the check for a missing host: help() returns Ok,
\* every error prints one line and returns Err(UsageError).
ParseArgs ==
    /\ pc = "args"
    /\ LET r == ArgLoop(args, 1, <<>>, FALSE) IN
        IF r.out = "help" THEN
            /\ result' = "ok"
            /\ why' = "help"
            /\ pc' = "done"
            /\ UNCHANGED <<host, verbose, diag>>
        ELSE IF r.out # "parsed" THEN
            /\ Fail("usage", r.out)
            /\ UNCHANGED <<host, verbose>>
        ELSE IF r.host = <<>> THEN
            /\ Fail("usage", "missing_host")
            /\ UNCHANGED <<host, verbose>>
        ELSE
            /\ host' = r.host
            /\ verbose' = r.verbose
            /\ pc' = "parse"
            /\ UNCHANGED <<result, diag, why>>
    /\ args' = <<>>
    /\ UNCHANGED <<target, port, addrFrom, peerClosed, etx, split, line, session>>

\* let (host, port) = Connection::parse(&host)
ParseTarget ==
    /\ pc = "parse"
    /\ target' = host
    /\ host' = ConnectionParse(host).host
    /\ port' = ConnectionParse(host).port
    /\ pc' = "resolve"
    /\ UNCHANGED <<args, verbose, addrFrom, peerClosed, etx, split, line, session, result, diag, why>>

\* A host ending in a numeric character is parsed as an address literal,
\* IpAddress::from_str being Ok or Err; any other host is given to
\* usr::host::resolve, which is Ok or Err.  host and the string it was
\* parsed from are not read again.
Resolve ==
    /\ pc = "resolve"
    /\ host' = <<>>
    /\ target' = <<>>
    /\ IF EndsNumeric(host)
       THEN /\ addrFrom' = "literal"
            /\ \/ /\ pc' = "info"
                  /\ UNCHANGED <<port, verbose, result, diag, why>>
               \/ /\ Fail("usage", "invalid_address")
                  /\ UNCHANGED <<port, verbose>>
       ELSE /\ addrFrom' = "resolver"
            /\ \/ /\ pc' = "info"
                  /\ UNCHANGED <<port, verbose, result, diag, why>>
               \/ /\ Fail("failure", "resolve")
                  /\ UNCHANGED <<port, verbose>>
    /\ UNCHANGED <<args, etx, peerClosed, split, line, session>>

\* syscall::info(socket_path) is Some(info): buf_len is its size.
InfoOk ==
    /\ pc = "info"
    /\ pc' = "open"
    /\ UNCHANGED <<args, host, target, port, verbose, addrFrom, peerClosed, etx, split, line, session, result, diag, why>>

\* syscall::info is None: one error line, Err(Failure).
InfoFail ==
    /\ pc = "info"
    /\ Fail("failure", "info")
    /\ UNCHANGED <<args, host, target, port, verbose, addrFrom, peerClosed, etx, split, line, session>>

\* syscall::open(socket_path, flags) returns a handle.
OpenOk ==
    /\ pc = "open"
    /\ handle' = "open"
    /\ opens' = opens + 1
    /\ pc' = "connect"
    /\ UNCHANGED <<args, host, target, port, verbose, addrFrom, peerClosed, etx, split, line, result, diag, why>>
    /\ UNCHANGED <<closes, connects, connected, echo, echoWas, data, i, display, wire,
                   branch, rd, misuse>>

\* syscall::open returns None: main returns Err(ExitCode::Failure) and
\* prints nothing.
OpenFail ==
    /\ pc = "open"
    /\ result' = "failure"
    /\ pc' = "done"
    /\ UNCHANGED <<args, host, target, port, verbose, addrFrom, peerClosed, etx, split, line, session, diag, why>>

\* syscall::connect(handle, addr, port) is Ok: connected is set (and, when
\* verbose, a debug! line printed, which is no error! line); addr, port and
\* is_verbose are not read again.
ConnectOk ==
    /\ pc = "connect"
    /\ OnHandle
    /\ connects' = connects + 1
    /\ connected' = TRUE
    /\ port' = 0
    /\ verbose' = FALSE
    /\ addrFrom' = "none"
    /\ pc' = "loop"
    /\ UNCHANGED <<args, host, target, etx, peerClosed, split, line, result, diag, why>>
    /\ UNCHANGED <<handle, opens, closes, echo, echoWas, data, i, display, wire,
                   branch, rd>>

\* Mutant of ConnectFail: the early return leaves the handle open.
ConnectFailLeak ==
    /\ pc = "connect"
    /\ OnHandle
    /\ connects' = connects + 1
    /\ Fail("failure", "connect")
    /\ UNCHANGED <<args, host, target, port, verbose, addrFrom, peerClosed, etx, split, line>>
    /\ UNCHANGED <<handle, opens, closes, connected, echo, echoWas, data, i, display,
                   wire, branch, rd>>

\* Mutant of ConnectFail: a failed connect is tried once more before giving up.
ConnectFailRetry ==
    /\ pc = "connect"
    /\ OnHandle
    /\ connects' = connects + 1
    /\ IF connects = 0
       THEN /\ UNCHANGED <<pc, handle, closes, result, diag, why>>
       ELSE /\ handle' = "closed"
            /\ closes' = closes + 1
            /\ Fail("failure", "connect")
    /\ UNCHANGED <<args, host, target, port, verbose, addrFrom, peerClosed, etx, split, line>>
    /\ UNCHANGED <<opens, connected, echo, echoWas, data, i, display, wire, branch, rd>>

\* syscall::connect fails: one error line, the handle is closed, Err(Failure).
ConnectFail ==
    /\ pc = "connect"
    /\ OnHandle
    /\ connects' = connects + 1
    /\ handle' = "closed"
    /\ closes' = closes + 1
    /\ Fail("failure", "connect")
    /\ UNCHANGED <<args, host, target, port, verbose, addrFrom, peerClosed, etx, split, line>>
    /\ UNCHANGED <<opens, connected, echo, echoWas, data, i, display, wire, branch, rd>>

\* The user types end-of-text or end-of-transmission.  The pump reads the
\* condition at the top of the loop only, so a key typed during an iteration
\* is one typed when the loop is at its top again.
KeyPressed ==
    /\ pc = "loop"
    /\ ~etx
    /\ etx' = TRUE
    /\ UNCHANGED <<pc, args, host, target, port, verbose, addrFrom, peerClosed, split, line, session,
                   result, diag, why>>

\* The condition goes away before the pump looks at it.
KeyCleared ==
    /\ pc = "loop"
    /\ etx
    /\ etx' = FALSE
    /\ UNCHANGED <<pc, args, host, target, port, verbose, addrFrom, peerClosed, split, line, session,
                   result, diag, why>>

\* The remote end closes the connection while the session is Active.  The
\* pump has no way to see it but the reads of the socket, which it issues
\* from the top of the loop, so a closure during an iteration is one found
\* when the loop is at its top again.
PeerCloses ==
    /\ pc = "loop"
    /\ ~peerClosed
    /\ peerClosed' = TRUE
    /\ UNCHANGED <<pc, args, host, target, port, verbose, addrFrom, etx, split, line, session,
                   result, diag, why>>

\* Mutant of Cancel: the line terminator is printed but the break is missing,
\* so the loop goes on to its next iteration.
CancelContinue ==
    /\ pc = "loop"
    /\ etx
    /\ FreshChunk
    /\ branch' = "cancel"
    /\ display' = <<LF>>
    /\ wire' = <<>>
    /\ line' = <<>>
    /\ rd' = NoRead
    /\ pc' = "loop"
    /\ UNCHANGED <<args, host, target, port, verbose, addrFrom, peerClosed, etx, split, result, diag, why>>
    /\ UNCHANGED <<handle, opens, closes, connects, connected, echo, echoWas, misuse>>

\* console::end_of_text() || console::end_of_transmission(): println!() and break.
Cancel ==
    /\ pc = "loop"
    /\ etx
    /\ FreshChunk
    /\ branch' = "cancel"
    /\ display' = <<LF>>
    /\ wire' = <<>>
    /\ line' = <<>>
    /\ rd' = NoRead
    /\ pc' = "closing"
    /\ UNCHANGED <<args, host, target, port, verbose, addrFrom, peerClosed, etx, split, result, diag, why>>
    /\ UNCHANGED <<handle, opens, closes, connects, connected, echo, echoWas, misuse>>

\* poll returns stdin: one line is read, its newlines replaced, and written
\* to the socket in one write.
RelayLine ==
    /\ pc = "loop"
    /\ ~etx
    /\ \E text \in Lines :
        /\ FreshChunk
        /\ branch' = "stdin"
        /\ OnHandle
        /\ line' = text
        /\ display' = <<>>
        /\ wire' = <<ReplaceNewlines(text)>>
        /\ rd' = NoRead
        /\ pc' = "loop"
    /\ UNCHANGED <<args, host, target, port, verbose, addrFrom, peerClosed, etx, split, result, diag, why>>
    /\ UNCHANGED <<handle, opens, closes, connects, connected, echo, echoWas>>

\* poll returns the socket and syscall::read returns None.
RemoteReadFail ==
    /\ pc = "loop"
    /\ ~etx
    /\ FreshChunk
    /\ branch' = "remote"
    /\ OnHandle
    /\ display' = <<>>
    /\ wire' = <<>>
    /\ line' = <<>>
    /\ rd' = [kind |-> "data", n |-> -1, status |-> 0]
    /\ pc' = "loop"
    /\ UNCHANGED <<args, host, target, port, verbose, addrFrom, peerClosed, etx, split, result, diag, why>>
    /\ UNCHANGED <<handle, opens, closes, connects, connected, echo, echoWas>>

\* Mutant of RemoteRead: a read of no bytes is taken for the end of the
\* connection and breaks out of the loop.
RemoteReadBreaksOnEmpty ==
    /\ pc = "loop"
    /\ ~etx
    /\ \E chunk \in Chunks :
        /\ data' = chunk
        /\ i' = 0
        /\ rd' = [kind |-> "data", n |-> Len(chunk), status |-> 0]
        /\ pc' = IF chunk = <<>> THEN "closing" ELSE "engine"
    /\ branch' = "remote"
    /\ OnHandle
    /\ display' = <<>>
    /\ wire' = <<>>
    /\ line' = <<>>
    /\ echoWas' = echo
    /\ UNCHANGED <<args, host, target, port, verbose, addrFrom, peerClosed, etx, split, result, diag, why>>
    /\ UNCHANGED <<handle, opens, closes, connects, connected, echo>>

\* poll returns the socket and syscall::read returns Some(bytes): data is
\* resized to the bytes read and the byte loop starts at i = 0.
RemoteRead ==
    /\ pc = "loop"
    /\ ~etx
    /\ \E chunk \in Chunks :
        /\ data' = chunk
        /\ i' = 0
        /\ rd' = [kind |-> "data", n |-> Len(chunk), status |-> 0]
    /\ branch' = "remote"
    /\ OnHandle
    /\ display' = <<>>
    /\ wire' = <<>>
    /\ line' = <<>>
    /\ echoWas' = echo
    /\ pc' = "engine"
    /\ UNCHANGED <<args, host, target, port, verbose, addrFrom, peerClosed, etx, split, result, diag, why>>
    /\ UNCHANGED <<handle, opens, closes, connects, connected, echo>>

\* One iteration of the byte loop: handle_iac, then either i += 1 and continue
\* or the byte at i is written to stdout and i += 1.
EngineStep ==
    /\ pc = "engine"
    /\ i < Len(data)
    /\ IF InBounds(data, HighestRead(data, i))
       THEN LET r == HandleIac(data, i, echo) IN
            /\ echo' = r.echo
            /\ echoWas' = echo
            /\ IF r.out # <<>> THEN OnHandle ELSE UNCHANGED misuse
            /\ wire' = wire \o r.out
            /\ IF r.ret
               THEN /\ i' = r.i + 1
                    /\ UNCHANGED display
               ELSE /\ display' = Append(display, At(data, r.i))
                    /\ i' = r.i + 1
            /\ UNCHANGED pc
       ELSE /\ pc' = "panicked"
            /\ UNCHANGED <<echo, echoWas, misuse, wire, display, i>>
    /\ UNCHANGED <<args, host, target, port, verbose, addrFrom, peerClosed, etx, split, line, result, diag, why>>
    /\ UNCHANGED <<handle, opens, closes, connects, connected, data, branch, rd>>

\* The byte loop ends (i >= data.len()): data goes out of scope, and the
\* records of what was done with it go with it; back to the top of the loop.
\* A non-empty chunk leaves the command prefix it ended with in the history.
EngineEnd ==
    /\ pc = "engine"
    /\ ~(i < Len(data))
    /\ split' = IF split.on /\ data # <<>>
                THEN [on |-> TRUE, pending |-> PendingPrefix(data)]
                ELSE split
    /\ FreshChunk
    /\ display' = <<>>
    /\ wire' = <<>>
    /\ echoWas' = echo
    /\ pc' = "loop"
    /\ UNCHANGED <<args, host, target, port, verbose, addrFrom, peerClosed, etx, line, result, diag, why>>
    /\ UNCHANGED <<handle, opens, closes, connects, connected, echo, branch, rd, misuse>>

\* Mutant of IdleBreaks: the Some(1) pattern is dropped, so the zeroed
\* buffer of a failed or empty read counts as a closure signal.
IdleBreaksNoCount(n, status) == IsClosed(status)

\* What the idle branch does with the status read (n bytes, status byte):
\* Some(1) with the may-receive bit clear breaks, anything else continues.
IdleBreaks(n, status) == n = 1 /\ IsClosed(status)

\* Mutant of Idle: on the closure signal the handle is closed in the branch
\* and the loop continues instead of breaking.
IdleCloseAndContinue ==
    /\ pc = "loop"
    /\ ~etx
    /\ FreshChunk
    /\ branch' = "idle"
    /\ display' = <<>>
    /\ wire' = <<>>
    /\ line' = <<>>
    /\ OnHandle
    /\ \E n \in {-1, 0, 1} : \E status \in StatusBytes :
        /\ n < 1 => status = 0
        /\ ( n = 1 /\ ~peerClosed ) => GetBit(status, MayRecv)
        /\ rd' = [kind |-> "status", n |-> n, status |-> status]
        /\ pc' = "loop"
        /\ IF IdleBreaks(n, status)
           THEN handle' = "closed" /\ closes' = closes + 1
           ELSE UNCHANGED <<handle, closes>>
    /\ UNCHANGED <<args, host, target, port, verbose, addrFrom, peerClosed, etx, split, result, diag, why>>
    /\ UNCHANGED <<opens, connects, connected, echo, echoWas>>

\* poll returns None: sleep, then (connected) the 1-byte status read into a
\* zeroed buffer.  The may-receive bit of a status read is clear only when
\* the remote end has closed; it may still be set then, with data pending.
Idle ==
    /\ pc = "loop"
    /\ ~etx
    /\ FreshChunk
    /\ branch' = "idle"
    /\ display' = <<>>
    /\ wire' = <<>>
    /\ line' = <<>>
    /\ OnHandle
    /\ IF connected
       THEN \E n \in {-1, 0, 1} : \E status \in StatusBytes :
                /\ n < 1 => status = 0
                /\ ( n = 1 /\ ~peerClosed ) => GetBit(status, MayRecv)
                /\ rd' = [kind |-> "status", n |-> n, status |-> status]
                /\ pc' = IF IdleBreaks(n, status) THEN "closing" ELSE "loop"
       ELSE /\ rd' = NoRead
            /\ pc' = "loop"
    /\ UNCHANGED <<args, host, target, port, verbose, addrFrom, peerClosed, etx, split, result, diag, why>>
    /\ UNCHANGED <<handle, opens, closes, connects, connected, echo, echoWas>>

\* Mutant of Close: a session ended by the peer is reported as a failure.
CloseFailsOnPeerClosure ==
    /\ pc = "closing"
    /\ handle' = "closed"
    /\ closes' = closes + 1
    /\ OnHandle
    /\ result' = IF branch = "idle" THEN "failure" ELSE "ok"
    /\ pc' = "done"
    /\ UNCHANGED <<args, host, target, port, verbose, addrFrom, peerClosed, etx, split, line, diag, why>>
    /\ UNCHANGED <<opens, connects, connected, echo, echoWas, data, i, display, wire,
                   branch, rd>>

\* After the loop: syscall::close(handle) and Ok(()).
Close ==
    /\ pc = "closing"
    /\ handle' = "closed"
    /\ closes' = closes + 1
    /\ OnHandle
    /\ result' = "ok"
    /\ pc' = "done"
    /\ UNCHANGED <<args, host, target, port, verbose, addrFrom, peerClosed, etx, split, line, diag, why>>
    /\ UNCHANGED <<opens, connects, connected, echo, echoWas, data, i, display, wire,
                   branch, rd>>

Next ==
    \/ ParseArgs
    \/ ParseTarget
    \/ Resolve
    \/ InfoOk
    \/ InfoFail
    \/ OpenOk
    \/ OpenFail
    \/ ConnectOk
    \/ ConnectFail
    \/ KeyPressed
    \/ KeyCleared
    \/ PeerCloses
    \/ Cancel
    \/ RelayLine
    \/ RemoteReadFail
    \/ RemoteRead
    \/ EngineStep
    \/ EngineEnd
    \/ Idle
    \/ Close

Spec == Init /\ [][Next]_vars

\* The steps of the program itself, as opposed to those of the user at the
\* console: the program is a running process, so it keeps taking steps.
Program ==
    \/ ParseArgs \/ ParseTarget \/ Resolve \/ InfoOk \/ InfoFail
    \/ OpenOk \/ OpenFail \/ ConnectOk \/ ConnectFail
    \/ Cancel \/ RelayLine \/ RemoteReadFail \/ RemoteRead
    \/ EngineStep \/ EngineEnd \/ Idle \/ Close

SpecLive == Spec /\ WF_vars(Program)

\* The same program with the history of chunk endings recorded.
InitSplit ==
    /\ pc = "args"
    /\ args \in ArgLists
    /\ host = <<>>
    /\ target = <<>>
    /\ port = 0
    /\ verbose = FALSE
    /\ addrFrom = "none"
    /\ peerClosed = FALSE
    /\ etx = FALSE
    /\ split = [on |-> TRUE, pending |-> <<>>]
    /\ line = <<>>
    /\ NoSession
    /\ result = "none"
    /\ diag = 0
    /\ why = "none"

SpecSplit == InitSplit /\ [][Next]_vars

\* ------------------------------------------------- the byte loop on its own
\* The session right after a read of the socket has filled data, with either
\* echo state, for every chunk put together from pieces.
InitEngine ==
    /\ pc = "engine"
    /\ args = <<>>
    /\ host = <<>>
    /\ target = <<>>
    /\ port = 0
    /\ verbose = FALSE
    /\ addrFrom = "none"
    /\ peerClosed = FALSE
    /\ etx = FALSE
    /\ split = NotRecorded
    /\ line = <<>>
    /\ handle = "open"
    /\ opens = 1
    /\ closes = 0
    /\ connects = 1
    /\ connected = TRUE
    /\ echo \in BOOLEAN
    /\ echoWas = echo
    /\ data \in PieceChunks
    /\ i = 0
    /\ display = <<>>
    /\ wire = <<>>
    /\ branch = "remote"
    /\ rd = [kind |-> "data", n |-> Len(data), status |-> 0]
    /\ misuse = FALSE
    /\ result = "none"
    /\ diag = 0
    /\ why = "none"

SpecEngine == InitEngine /\ [][EngineStep \/ EngineEnd]_vars

\* ----------------------------------------- Connection::parse on its own
\* Connection::parse applied to every target string of the bound.
InitParse ==
    /\ pc = "parse"
    /\ args = <<>>
    /\ host \in Urls
    /\ target = <<>>
    /\ port = 0
    /\ verbose = FALSE
    /\ addrFrom = "none"
    /\ peerClosed = FALSE
    /\ etx = FALSE
    /\ split = NotRecorded
    /\ line = <<>>
    /\ NoSession
    /\ result = "none"
    /\ diag = 0
    /\ why = "none"

SpecParse == InitParse /\ [][ParseTarget]_vars

\* ------------------------------------------------------- session states
\* The session exists once the handle is opened: Connecting until connect
\* returns, Active in the loop, Closing after the break, Closed on return.
SessionState ==
    IF handle = "none" THEN "NoSession"
    ELSE IF pc = "connect" THEN "Connecting"
    ELSE IF pc \in {"loop", "engine"} THEN "Active"
    ELSE IF pc = "closing" THEN "Closing"
    ELSE "Closed"

\* The cursor of the byte loop is at an IAC byte followed inside the chunk by
\* the pair (c, o).
AtCommand(c, o) ==
    /\ pc = "engine"
    /\ i + 2 < Len(data)
    /\ At(data, i) = 255
    /\ At(data, i + 1) = c
    /\ At(data, i + 2) = o

\* The byte loop has just passed the 3-byte command IAC c o.
PassedCommand(c, o) ==
    /\ pc = "engine"
    /\ i >= 3
    /\ At(data, i - 3) = 255
    /\ At(data, i - 2) = c
    /\ At(data, i - 1) = o

\* ----------------------------------------------------------------- C1
\* C1: a handle that was opened is closed exactly once by the time main has
\* returned, on every exit path, and is never closed more than once.
C1_HandleClosedExactlyOnce ==
    /\ closes <= opens
    /\ closes <= 1
    /\ (result # "none" /\ opens > 0) => (closes = 1 /\ handle = "closed")

\* main has returned after peer closure was detected in the idle branch, with
\* the handle closed once.
C1_Witness ==
    /\ result = "ok"
    /\ branch = "idle"
    /\ opens = 1
    /\ closes = 1
    /\ handle = "closed"

\* ----------------------------------------------------------------- C2
\* C2: at most one connection handle is open at any time, and no operation
\* (connect, poll, read, write) is issued on a handle that is not open.
C2_OneHandleNoUseAfterClose ==
    /\ opens <= 1
    /\ opens - closes <= 1
    /\ (handle = "open") <=> (opens - closes = 1)
    /\ ~misuse

\* The handle has been closed after a session in which the socket was read.
C2_Witness ==
    /\ handle = "closed"
    /\ connected
    /\ rd.kind = "status"
    /\ ~misuse

\* ----------------------------------------------------------------- C3
\* C3: with the cursor at IAC DO TERMINAL_TYPE (255, 253, 24), whatever
\* follows, one iteration of the byte loop writes exactly the 20-byte
\* terminal-type response to the socket, displays nothing and advances the
\* cursor by 3.
C3_TerminalTypeResponse ==
    [][AtCommand(253, 24) =>
        /\ wire' = Append(wire, <<255, 250, 24, 0, 88, 84, 69, 82, 77, 45, 50,
                                  53, 54, 67, 79, 76, 79, 82, 255, 240>>)
        /\ Len(wire'[Len(wire')]) = 20
        /\ display' = display
        /\ i' = i + 3]_vars

\* IAC DO TERMINAL_TYPE at the head of a chunk with a trailing byte has been
\* answered.
C3_Witness ==
    /\ PassedCommand(253, 24)
    /\ i = 3
    /\ Len(data) > 3
    /\ Len(wire) = 1
    /\ Len(wire[1]) = 20
    /\ display = <<>>

\* ----------------------------------------------------------------- C4
\* C4: IAC WILL SUPPRESS_LOCAL_ECHO disables local echo and is answered with
\* IAC DO SUPPRESS_LOCAL_ECHO; IAC WONT SUPPRESS_LOCAL_ECHO enables it and is
\* answered with IAC DONT SUPPRESS_LOCAL_ECHO; each advances the cursor by 3.
C4_EchoNegotiation ==
    [][/\ AtCommand(251, 1) =>
            /\ echo' = FALSE
            /\ wire' = Append(wire, <<255, 253, 1>>)
            /\ i' = i + 3
       /\ AtCommand(252, 1) =>
            /\ echo' = TRUE
            /\ wire' = Append(wire, <<255, 254, 1>>)
            /\ i' = i + 3]_vars

\* A WONT has been processed while echo was disabled (by an earlier WILL):
\* echo is enabled again and the DONT answer was written.
C4_Witness ==
    /\ PassedCommand(252, 1)
    /\ echoWas = FALSE
    /\ echo = TRUE
    /\ wire # <<>>
    /\ wire[Len(wire)] = <<255, 254, 1>>

\* ----------------------------------------------------------------- C5
\* C5: a WILL processed while echo is already disabled leaves it disabled, and
\* a WONT processed while echo is already enabled leaves it enabled; the only
\* effect of the repeated request is the acknowledgement written again.
C5_EchoIdempotent ==
    [][/\ (AtCommand(251, 1) /\ echo = FALSE) =>
            /\ echo' = echo
            /\ wire' = Append(wire, <<255, 253, 1>>)
            /\ display' = display
       /\ (AtCommand(252, 1) /\ echo = TRUE) =>
            /\ echo' = echo
            /\ wire' = Append(wire, <<255, 254, 1>>)
            /\ display' = display]_vars

\* A WILL has been processed while echo was already disabled.
C5_Witness ==
    /\ PassedCommand(251, 1)
    /\ echoWas = FALSE
    /\ echo = FALSE
    /\ wire # <<>>
    /\ wire[Len(wire)] = <<255, 253, 1>>

\* ----------------------------------------------------------------- C6
\* C6: with the cursor at an IAC byte followed inside the chunk by a pair
\* other than (DO, TERMINAL_TYPE), (WILL, SUPPRESS_LOCAL_ECHO) and
\* (WONT, SUPPRESS_LOCAL_ECHO), one iteration of the byte loop writes nothing
\* to the socket, leaves echo alone and advances the cursor by 1.
C6_UnrecognizedPair ==
    [][(/\ pc = "engine"
        /\ i + 2 < Len(data)
        /\ At(data, i) = 255
        /\ <<At(data, i + 1), At(data, i + 2)>>
              \notin {<<253, 24>>, <<251, 1>>, <<252, 1>>}) =>
        /\ wire' = wire
        /\ echo' = echo
        /\ i' = i + 1]_vars

\* The byte loop has stepped over the IAC of IAC WILL TERMINAL_TYPE only: the
\* cursor is at WILL and nothing was written to the socket.
C6_Witness ==
    /\ pc = "engine"
    /\ i = 1
    /\ Len(data) >= 3
    /\ data[1] = 255
    /\ data[2] = 251
    /\ data[3] = 24
    /\ wire = <<>>

\* ----------------------------------------------------------------- C7
\* C7: an IAC byte at position i with i + 2 >= n is ordinary data: it is
\* written to the display, nothing is written to the socket, echo is left
\* alone and the cursor advances by 1.
C7_TruncatedIac ==
    [][(/\ pc = "engine"
        /\ i < Len(data)
        /\ At(data, i) = 255
        /\ i + 2 >= Len(data)) =>
        /\ display' = Append(display, 255)
        /\ wire' = wire
        /\ echo' = echo
        /\ i' = i + 1]_vars

\* An IAC that was the second to last byte of its chunk, followed by DO,
\* WILL or WONT, has been displayed and the cursor is at the last byte.
C7_Witness ==
    /\ pc = "engine"
    /\ Len(data) >= 2
    /\ i = Len(data) - 1
    /\ At(data, i - 1) = 255
    /\ At(data, i) \in {253, 251, 252}
    /\ display # <<>>
    /\ display[Len(display)] = 255

\* ----------------------------------------------------------------- C8
\* The value of a string of decimal digits, last digit first.
RECURSIVE DecimalValue(_)
DecimalValue(t) ==
    IF t = <<>> THEN 0
    ELSE 10 * DecimalValue(SubSeq(t, 1, Len(t) - 1)) + DigitValue(t[Len(t)])

\* t is a number u16's parser accepts: decimal digits only, at least one,
\* after at most one leading '+', of a value up to 65535.
ReadsAsU16(t) ==
    LET digits == IF t # <<>> /\ t[1] = "+" THEN Tail(t) ELSE t
    IN  /\ digits # <<>>
        /\ \A k \in 1..Len(digits) : digits[k] \in DecDigits
        /\ DecimalValue(digits) <= 65535

\* C8: parsing a target never fails and always yields a port: 23 without a
\* colon; with one, the value of the text after the first colon when that
\* text is a u16 (an optional '+' and decimal digits, at most 65535), else
\* 23; the host is the text before the first colon, or all of it.
C8_TargetParse ==
    pc = "resolve" =>
        LET colons == {k \in 1..Len(target) : target[k] = ":"} IN
        /\ port \in 0..65535
        /\ colons = {} => (host = target /\ port = 23)
        /\ colons # {} =>
            LET c == CHOOSE k \in colons : \A j \in colons : k <= j
                text == SubSeq(target, c + 1, Len(target))
                digits == IF text # <<>> /\ text[1] = "+" THEN Tail(text) ELSE text
            IN  /\ host = SubSeq(target, 1, c - 1)
                /\ ReadsAsU16(text) => port = DecimalValue(digits)
                /\ ~ReadsAsU16(text) => port = 23

\* A target whose port text is five digits above 65535 was parsed: port 23.
C8_Witness ==
    /\ pc = "resolve"
    /\ Len(target) = 6
    /\ target[1] = ":"
    /\ \A k \in 2..6 : target[k] \in DecDigits
    /\ target[2] = "6"
    /\ target[3] = "6"
    /\ host = <<>>
    /\ port = 23

\* ----------------------------------------------------------------- C9
\* C9: the session moves only Connecting -> Active (connect succeeded),
\* Connecting -> Closed (the one connect failed: one error line, a failure
\* code), Active -> Closing and Closing -> Closed, and nothing leaves Closed.
C9_SessionTransitions ==
    [][/\ <<SessionState, SessionState'>> \in
            {<<"NoSession", "NoSession">>, <<"NoSession", "Connecting">>,
             <<"Connecting", "Active">>, <<"Connecting", "Closed">>,
             <<"Active", "Active">>, <<"Active", "Closing">>,
             <<"Closing", "Closed">>}
       /\ (SessionState = "Connecting" /\ SessionState' = "Active") =>
            /\ connects = 0
            /\ connects' = 1
            /\ result' = "none"
       /\ (SessionState = "Connecting" /\ SessionState' = "Closed") =>
            /\ connects = 0
            /\ connects' = 1
            /\ diag' = diag + 1
            /\ why' = "connect"
            /\ result' = "failure"]_vars

\* The session is Closed after its one connect failed.
C9_Witness ==
    /\ SessionState = "Closed"
    /\ connects = 1
    /\ ~connected
    /\ why = "connect"
    /\ result = "failure"

\* ----------------------------------------------------------------- C10
\* C10: the session leaves Active only by cancellation or by a status read
\* of one byte whose may-receive bit is clear; after a failed or
\* empty socket read, of data or of the status, nothing was displayed or
\* written to the socket in that iteration and the session is still Active.
C10_ActiveLeftOnlyBySignal ==
    /\ [](( /\ rd.kind \in {"data", "status"}
            /\ rd.n < 1
            /\ branch \in {"remote", "idle"}) =>
            /\ SessionState = "Active"
            /\ display = <<>>
            /\ wire = <<>>)
    /\ [][(SessionState = "Active" /\ SessionState' # "Active") =>
            \/ branch' = "cancel"
            \/ /\ branch' = "idle"
               /\ rd'.kind = "status"
               /\ rd'.n = 1
               /\ ~GetBit(rd'.status, MayRecv)]_vars

\* The idle status read failed and the pump is at the top of the loop again.
C10_Witness ==
    /\ pc = "loop"
    /\ branch = "idle"
    /\ rd.kind = "status"
    /\ rd.n = -1
    /\ display = <<>>
    /\ wire = <<>>

\* ----------------------------------------------------------------- C11
\* C11: when the idle branch reads one status byte whose may-receive bit is
\* clear, that same iteration leaves the loop for Closing, and from there
\* the only step is the close of the handle: no read, write or poll is issued
\* on the socket between the status read and the close.
C11_PeerClosureClosesAtOnce ==
    [][ /\ ( /\ pc = "loop"
             /\ etx' = etx
             /\ branch' = "idle"
             /\ rd'.kind = "status"
             /\ rd'.n = 1
             /\ ~GetBit(rd'.status, MayRecv) ) =>
                /\ SessionState' = "Closing"
                /\ handle' = "open"
                /\ wire' = <<>>
        /\ ( pc = "closing" /\ branch = "idle" ) =>
                /\ rd.kind = "status" /\ rd.n = 1 /\ ~GetBit(rd.status, MayRecv)
                /\ SessionState' = "Closed"
                /\ handle' = "closed"
                /\ closes' = closes + 1
                /\ rd' = rd
                /\ wire' = wire
                /\ branch' = branch
                /\ ~misuse'
      ]_vars

\* The status read found the may-receive bit clear (another flag still set)
\* and the handle has been closed since.
C11_Witness ==
    /\ pc = "done"
    /\ branch = "idle"
    /\ rd = [kind |-> "status", n |-> 1, status |-> 4]
    /\ handle = "closed"
    /\ closes = 1

\* ----------------------------------------------------------------- C12
\* C12: at the top of an Active iteration a raised end-of-text or
\* end-of-transmission condition is acted on before anything else: the
\* iteration prints a line terminator, issues no poll, read or write on the
\* socket and leaves for Closing, from where the handle is closed, once, and
\* the session is Closed; and a condition that is raised and stays raised
\* leads to Closed.
C12_CancellationClosesSession ==
    /\ [][ /\ ( pc = "loop" /\ etx /\ etx' /\ peerClosed' = peerClosed ) =>
                /\ branch' = "cancel"
                /\ display' = <<LF>>
                /\ wire' = <<>>
                /\ rd' = NoRead
                /\ misuse' = misuse
                /\ handle' = "open"
                /\ closes' = 0
                /\ SessionState' = "Closing"
           /\ ( pc = "closing" /\ branch = "cancel" ) =>
                /\ SessionState' = "Closed"
                /\ handle' = "closed"
                /\ closes' = 1
                /\ wire' = wire
                /\ rd' = rd
                /\ result' = "ok"
         ]_vars
    /\ [](SessionState = "Closed" => closes = 1)
    /\ ((SessionState = "Active" /\ etx) ~> (~etx \/ SessionState = "Closed"))

\* The session was cancelled and has been closed: the last iteration printed
\* the line terminator only.
C12_Witness ==
    /\ pc = "done"
    /\ etx
    /\ branch = "cancel"
    /\ display = <<LF>>
    /\ handle = "closed"
    /\ closes = 1
    /\ result = "ok"

\* ----------------------------------------------------------------- C13
\* C13: every invocation that ends in an error (main returned without a
\* session having become Active and without help having been asked for)
\* has printed exactly one diagnostic line and returns a non-zero exit code.
C13_EveryErrorPrintsOneLine ==
    ( pc = "done" /\ ~connected /\ why # "help" ) =>
        /\ result \in {"usage", "failure"}
        /\ diag = 1

\* C13, what does hold: every error but the failure to open the device
\* prints one line and returns a non-zero exit code.
C13_ErrorsOtherThanOpen ==
    ( pc = "done" /\ ~connected /\ why # "help" /\ why # "none" ) =>
        /\ result \in {"usage", "failure"}
        /\ diag = 1

\* The device could not be opened: main has returned the failure code and
\* no line was printed.
C13_Witness ==
    /\ pc = "done"
    /\ handle = "none"
    /\ opens = 0
    /\ addrFrom # "none"
    /\ result = "failure"
    /\ diag = 0
    /\ why = "none"

\* ----------------------------------------------------------------- C14
\* C14: a session that became Active returns success, whether the loop was
\* left by cancellation or by the peer's closure; a resolution failure and a
\* connection failure return the failure code; and main returns success only
\* when the connect succeeded or help was asked for.
C14_ExitCodes ==
    /\ ( pc = "done" /\ connected ) =>
            /\ branch \in {"cancel", "idle"}
            /\ result = "ok"
            /\ diag = 0
    /\ ( pc = "done" /\ why \in {"resolve", "connect"} ) => result = "failure"
    /\ ( pc = "done" /\ connects = 1 /\ ~connected ) => result = "failure"
    /\ result = "ok" => ( connected \/ why = "help" )
    /\ pc = "done" <=> result # "none"

\* A session ended by the peer's closure has returned success.
C14_Witness ==
    /\ pc = "done"
    /\ connected
    /\ branch = "idle"
    /\ result = "ok"

\* ----------------------------------------------------------------- C15
\* The arguments after the program name, by what they look like.
ArgIndexes(a) == 1 .. (Len(a) - 1)
IsOption(x) == StartsWithDash(x)
IsKnownOption(x) == x \in OptHelp \cup OptVerbose \cup OptTimeout
IsPositional(x) == ~StartsWithDash(x)

\* C15 as stated: an argument list with no positional argument, with an
\* unknown option, with a second positional argument or with the timeout
\* option as its last argument ends in a usage error, and nothing was
\* resolved, opened or connected.
C15_UsageErrorWhenever ==
    [][ ( /\ pc = "args"
          /\ \/ ~\E k \in ArgIndexes(args) : IsPositional(At(args, k))
             \/ \E k \in ArgIndexes(args) :
                    IsOption(At(args, k)) /\ ~IsKnownOption(At(args, k))
             \/ \E j, k \in ArgIndexes(args) :
                    j < k /\ IsPositional(At(args, j)) /\ IsPositional(At(args, k))
             \/ ( Len(args) > 1 /\ args[Len(args)] \in OptTimeout ) ) =>
            /\ result' = "usage"
            /\ pc' = "done"
            /\ addrFrom' = "none" /\ opens' = 0 /\ connects' = 0
      ]_vars

\* The indexes of the arguments from k on that follow a timeout option as
\* its value: the loop steps over them without looking at them.
RECURSIVE TimeoutValues(_, _)
TimeoutValues(a, k) ==
    IF ~(k < Len(a)) THEN {}
    ELSE IF At(a, k) \in OptTimeout /\ k + 1 < Len(a)
         THEN {k + 1} \cup TimeoutValues(a, k + 2)
         ELSE TimeoutValues(a, k + 1)

\* The arguments the loop looks at if it runs to the end.
Examined(a) == ArgIndexes(a) \ TimeoutValues(a, 1)

\* The examined arguments that make the loop return a usage error when it
\* reaches them: an unknown option, the timeout option with nothing after it,
\* a positional argument after a non-empty one.
Offending(a) ==
    {k \in Examined(a) :
        \/ IsOption(At(a, k)) /\ ~IsKnownOption(At(a, k))
        \/ At(a, k) \in OptTimeout /\ k = Len(a) - 1
        \/ /\ IsPositional(At(a, k))
           /\ \E j \in Examined(a) : j < k /\ IsPositional(At(a, j)) /\ At(a, j) # <<>>}

HelpAsked(a) == {k \in Examined(a) : At(a, k) \in OptHelp}

HostGiven(a) == \E k \in Examined(a) : IsPositional(At(a, k)) /\ At(a, k) # <<>>

Before(S, T) == S # {} /\ \A t \in T : \E x \in S : x < t

\* C15, amended: the arguments are examined in order, the argument after a
\* timeout option being its value and not examined; the invocation ends with
\* a usage error exactly when an offending argument comes before any help
\* option, or when there is neither a help option nor an offending argument
\* nor a non-empty positional argument; and then nothing was resolved,
\* opened or connected.  A help option that comes first ends it with success.
C15_UsageErrorFirstOffence ==
    /\ [][ pc = "args" =>
            /\ result' = "usage" <=>
                  \/ Before(Offending(args), HelpAsked(args))
                  \/ /\ Offending(args) = {}
                     /\ HelpAsked(args) = {}
                     /\ ~HostGiven(args)
            /\ ( result' = "ok" /\ why' = "help" ) <=>
                  Before(HelpAsked(args), Offending(args))
            /\ result' \in {"usage", "ok"} =>
                  /\ pc' = "done"
                  /\ addrFrom' = "none" /\ opens' = 0 /\ connects' = 0
         ]_vars
    /\ []( why \in {"missing_timeout", "invalid_option", "too_many", "missing_host"} =>
            /\ pc = "done"
            /\ result = "usage"
            /\ diag = 1
            /\ addrFrom = "none" /\ handle = "none" /\ opens = 0 /\ connects = 0 )

\* A second positional argument ended the invocation with a usage error.
C15_Witness ==
    /\ pc = "done"
    /\ why = "too_many"
    /\ result = "usage"
    /\ addrFrom = "none"
    /\ opens = 0

\* ----------------------------------------------------------------- C16
\* The three commands the engine recognizes.
Recognized ==
    {<<BYTE_IAC, BYTE_DO, BYTE_TERMINAL_TYPE>>,
     <<BYTE_IAC, BYTE_WILL, BYTE_SUPPRESS_LOCAL_ECHO>>,
     <<BYTE_IAC, BYTE_WONT, BYTE_SUPPRESS_LOCAL_ECHO>>}

IsPrefixOf(p, d) == Len(p) <= Len(d) /\ SubSeq(d, 1, Len(p)) = p

\* The number of bytes at the end of the chunk d that are a proper prefix
\* (one or two bytes) of a recognized command.
SplitTail(d) ==
    IF \E c \in Recognized : Len(d) >= 2 /\ SubSeq(d, Len(d) - 1, Len(d)) = SubSeq(c, 1, 2)
    THEN 2
    ELSE IF Len(d) >= 1 /\ d[Len(d)] = BYTE_IAC THEN 1
    ELSE 0

\* The number of bytes at the start of the chunk d that complete the prefix p
\* the previous chunk ended with to a recognized command; 0 if they do not.
SplitHead(p, d) ==
    IF p # <<>> /\ \E c \in Recognized : IsPrefixOf(p, c) /\ IsPrefixOf(SubSeq(c, Len(p) + 1, 3), d)
    THEN 3 - Len(p)
    ELSE 0

\* C16: a recognized command split across two consecutive chunks is not
\* reassembled: each byte of its first part (at the end of a chunk) and
\* each byte of its second part (at the start of the next chunk) is passed by
\* the cursor one at a time and written to the display, with no write to the
\* connection and no change of the echo state.
C16_SplitCommandNotReassembled ==
    [][ ( /\ pc = "engine"
          /\ i < Len(data)
          /\ \/ i >= Len(data) - SplitTail(data)
             \/ i < SplitHead(split.pending, data) ) =>
            /\ i' = i + 1
            /\ display' = Append(display, At(data, i))
            /\ wire' = wire
            /\ echo' = echo
            /\ pc' = "engine"
      ]_vars

\* The previous chunk ended with IAC WILL, this one started with
\* SUPPRESS_LOCAL_ECHO and went on; the cursor has passed that byte, which is
\* on the display, and nothing was written and the echo is as it was.
C16_Witness ==
    /\ pc = "engine"
    /\ split.pending = <<BYTE_IAC, BYTE_WILL>>
    /\ Len(data) > 1
    /\ At(data, 0) = BYTE_SUPPRESS_LOCAL_ECHO
    /\ i = 1
    /\ display = <<BYTE_SUPPRESS_LOCAL_ECHO>>
    /\ wire = <<>>
    /\ echo

\* ----------------------------------------------------------------- C17
\* C17: the byte loop never fails and always ends: the cursor stays within
\* 0..n, every iteration moves it forward by 1 or by 3, every index it reads
\* (i, and i+1 and i+2 when it looks at a command pair) is inside the buffer,
\* so no read panics, the loop is left only with the cursor equal to n, and
\* every pass over a buffer comes to that end.
C17_EngineTerminatesInBounds ==
    /\ []( pc # "panicked" )
    /\ []( pc = "engine" => ( 0 <= i /\ i <= Len(data) ) )
    /\ [][ pc = "engine" =>
            IF pc' = "engine"
            THEN /\ i < Len(data)
                 /\ data' = data
                 /\ i' \in {i + 1, i + 3}
                 /\ i' <= Len(data)
                 /\ i' = i + 3 => ( At(data, i) = BYTE_IAC /\ i + 2 <= Len(data) - 1 )
            ELSE /\ pc' = "loop"
                 /\ i = Len(data)
         ]_vars
    /\ ( pc = "engine" ~> pc = "loop" )

\* The cursor has reached the end of a full-length buffer that ends with a
\* recognized command, having jumped over it.
C17_Witness ==
    /\ pc = "engine"
    /\ Len(data) = MaxLen
    /\ i = Len(data)
    /\ SubSeq(data, MaxLen - 2, MaxLen) = <<BYTE_IAC, BYTE_DO, BYTE_TERMINAL_TYPE>>
    /\ Len(display) = MaxLen - 3
    /\ wire = <<TerminalTypeResponse>>

\* ----------------------------------------------------------------- C18
\* C18: the host is taken for an address literal exactly when its last
\* character is a decimal digit; a literal is never handed to the resolver
\* and can only fail with the invalid-address error; every other host, the
\* empty one included, is handed to the resolver, whose failure is the
\* resolution failure; and after either failure no device was opened and no
\* connect attempted.
C18_LiteralIffLastIsDecimalDigit ==
    [][ pc = "resolve" =>
            /\ IF host # <<>> /\ host[Len(host)] \in DecDigits
               THEN /\ addrFrom' = "literal"
                    /\ result' # "none" => why' = "invalid_address"
               ELSE /\ addrFrom' = "resolver"
                    /\ result' # "none" => ( why' = "resolve" /\ result' = "failure" )
            /\ result' # "none" =>
                    /\ pc' = "done"
                    /\ handle' = "none" /\ opens' = 0 /\ connects' = 0
      ]_vars

\* ----------------------------------------------------------------- C19
\* The number of line feeds among the first k bytes of s.
LineFeedsBefore(s, k) == Cardinality({j \in 1..k : s[j] = LF})

\* w is s with a carriage return put before each of its line feeds: byte k
\* of s is found in w behind the k-1 bytes before it and one carriage return
\* for each line feed up to it.
IsCrLfOf(w, s) ==
    /\ Len(w) = Len(s) + LineFeedsBefore(s, Len(s))
    /\ \A k \in 1..Len(s) :
        /\ w[k + LineFeedsBefore(s, k)] = s[k]
        /\ s[k] = LF => w[k + LineFeedsBefore(s, k) - 1] = CR

\* C19: in an iteration that found local input ready, the line read goes to
\* the socket in one write, with each "\n" of it replaced by "\r\n" and every
\* other byte as it was; nothing is written to the display and nothing is
\* read from the socket in that iteration.
C19_LineRelayedWithCrLf ==
    /\ [][ ( pc = "loop" /\ branch' = "stdin" /\ etx' = etx ) =>
              /\ Len(wire') = 1
              /\ IsCrLfOf(wire'[1], line')
              /\ display' = <<>>
              /\ rd' = NoRead
              /\ data' = <<>>
              /\ pc' = "loop"
         ]_vars
    /\ []( branch = "stdin" => ( Len(wire) = 1 /\ IsCrLfOf(wire[1], line) ) )
    /\ []( line # <<>> => branch = "stdin" )

\* A line of two line feeds has gone to the socket as "\r\n\r\n".
C19_Witness ==
    /\ pc = "loop"
    /\ branch = "stdin"
    /\ line = <<LF, LF>>
    /\ wire = << <<CR, LF, CR, LF>> >>
    /\ display = <<>>
    /\ rd = NoRead

\* ----------------------------------------------------------------- C20
\* C20: a change of the local echo made by negotiation does not outlast the
\* session: whenever the session is Closed, by cancellation or by the peer's
\* closure, the local echo is enabled, whatever echo command came last.
C20_EchoRestoredAtClose ==
    ( SessionState = "Closed" /\ connected ) => echo = TRUE

\* C20, what does hold: the echo is left as the last recognized echo command
\* set it; leaving the loop and closing the handle do not touch it.
C20_EchoLeftAsNegotiated ==
    [][ /\ echo' # echo =>
            /\ pc = "engine"
            /\ i + 2 < Len(data)
            /\ At(data, i) = BYTE_IAC
            /\ At(data, i + 2) = BYTE_SUPPRESS_LOCAL_ECHO
            /\ At(data, i + 1) = ( IF echo' THEN BYTE_WONT ELSE BYTE_WILL )
        /\ pc \in {"loop", "closing"} => echo' = echo
      ]_vars

\* The session was cancelled after the server had the local echo suppressed:
\* main has returned and the echo is still off.
C20_Witness ==
    /\ pc = "done"
    /\ connected
    /\ branch = "cancel"
    /\ handle = "closed"
    /\ result = "ok"
    /\ echo = FALSE

\* ----------------------------------------------------------------- C21
\* The (0-based) indexes of the chunk d at which a recognized command starts.
CommandStarts(d) ==
    {k \in 0 .. (Len(d) - 3) : SubSeq(d, k + 1, k + 3) \in Recognized}

\* The indexes below n of the bytes of d that belong to no recognized command.
DataIndexes(d, n) ==
    {k \in 0 .. (n - 1) : ~\E c \in CommandStarts(d) : c <= k /\ k <= c + 2}

\* s is the bytes of d at the indexes of K, in their order: the byte at k is
\* the one of s numbered by the indexes of K up to k.
IsSelection(s, d, K) ==
    /\ Len(s) = Cardinality(K)
    /\ \A k \in K : s[Cardinality({j \in K : j <= k})] = At(d, k)

\* C21: of an inbound chunk the display is given the bytes that belong to no
\* recognized command, in their order and each once, and no byte of a
\* recognized command: at every cursor position the display holds those of
\* the bytes passed so far, at the end of the chunk those of the whole chunk.
\* The IAC of an unrecognized or truncated command is one of these bytes.
C21_DisplayIsChunkWithoutCommands ==
    pc = "engine" =>
        /\ IsSelection(display, data, DataIndexes(data, i))
        /\ \A c \in CommandStarts(data) : ~( c < i /\ i <= c + 2 )

\* The end of a chunk made of an IAC with an unrecognized pair that runs into
\* a recognized command: the first IAC is on the display and nothing else.
C21_Witness ==
    /\ pc = "engine"
    /\ data = <<BYTE_IAC, BYTE_IAC, BYTE_DO, BYTE_TERMINAL_TYPE>>
    /\ i = Len(data)
    /\ display = <<BYTE_IAC>>

\* ----------------------------------------------------------------- C22
\* The response the engine owes to the recognized command c.
ResponseTo(c) ==
    IF c[2] = BYTE_DO THEN TerminalTypeResponse
    ELSE IF c[2] = BYTE_WILL THEN <<BYTE_IAC, BYTE_DO, BYTE_SUPPRESS_LOCAL_ECHO>>
    ELSE <<BYTE_IAC, BYTE_DONT, BYTE_SUPPRESS_LOCAL_ECHO>>

\* The recognized commands of d that start below n, and those of them that
\* set the echo.
StartsBelow(d, n) == {k \in CommandStarts(d) : k < n}
EchoStartsBelow(d, n) ==
    {k \in StartsBelow(d, n) : At(d, k + 2) = BYTE_SUPPRESS_LOCAL_ECHO}

\* C22: while a chunk is processed the writes to the connection are the
\* responses to its recognized commands, one for each and in their order; a
\* chunk without a recognized command causes no write and no change of the
\* echo; the echo is what the last recognized WILL or WONT
\* SUPPRESS_LOCAL_ECHO passed so far has set, and as it was when there is
\* none; and nothing else of the session is touched.
C22_EffectsMatchCommands ==
    /\ []( pc = "engine" =>
            /\ Len(wire) = Cardinality(StartsBelow(data, i))
            /\ \A k \in StartsBelow(data, i) :
                    wire[Cardinality(StartsBelow(data, k + 1))]
                        = ResponseTo(SubSeq(data, k + 1, k + 3))
            /\ \A k \in EchoStartsBelow(data, i) :
                    ( \A j \in EchoStartsBelow(data, i) : j <= k ) =>
                        ( echo <=> At(data, k + 1) = BYTE_WONT ) )
    /\ [][ ( pc = "engine" /\ pc' = "engine" ) =>
                /\ i \notin EchoStartsBelow(data, Len(data)) => echo' = echo
                /\ i \notin CommandStarts(data) => wire' = wire
                /\ UNCHANGED <<handle, opens, closes, connects, connected, rd, data,
                               result, diag, why>>
         ]_vars

\* The end of a chunk with two recognized commands, WONT after WILL: both
\* were answered, in that order, and the echo is enabled.
C22_Witness ==
    /\ pc = "engine"
    /\ i = Len(data)
    /\ data = <<BYTE_IAC, BYTE_WILL, BYTE_SUPPRESS_LOCAL_ECHO,
                 BYTE_IAC, BYTE_WONT, BYTE_SUPPRESS_LOCAL_ECHO, 65>>
    /\ wire = << <<BYTE_IAC, BYTE_DO, BYTE_SUPPRESS_LOCAL_ECHO>>,
                 <<BYTE_IAC, BYTE_DONT, BYTE_SUPPRESS_LOCAL_ECHO>> >>
    /\ echo

\* ----------------------------------------------------------------- C23
\* A step of the pump from the top of its loop: one iteration, as opposed to
\* a step of the console or of the remote end.
Iteration == pc = "loop" /\ etx' = etx /\ peerClosed' = peerClosed

\* What each branch of an iteration leaves behind.
TookCancel == display' = <<LF>> /\ wire' = <<>> /\ rd' = NoRead
TookRelay == display' = <<>> /\ Len(wire') = 1 /\ rd' = NoRead
TookRemote == rd'.kind = "data" /\ wire' = <<>> /\ display' = <<>>
TookIdle == rd'.kind = "status" /\ wire' = <<>> /\ display' = <<>>

\* C23: each iteration of the Active loop takes exactly one of the four
\* branches; the status is read in the idle branch only; so the loop is left
\* on the remote end's closure only by an idle iteration, and an iteration
\* that relays local input or reads the socket leaves the session Active
\* with its handle open, also when the remote end has closed.
C23_ClosureSeenOnlyWhenIdle ==
    /\ [][ Iteration =>
            /\ \/ branch' = "cancel" /\ TookCancel /\ ~TookRelay /\ ~TookRemote /\ ~TookIdle
               \/ branch' = "stdin" /\ TookRelay /\ ~TookCancel /\ ~TookRemote /\ ~TookIdle
               \/ branch' = "remote" /\ TookRemote /\ ~TookCancel /\ ~TookRelay /\ ~TookIdle
               \/ branch' = "idle" /\ TookIdle /\ ~TookCancel /\ ~TookRelay /\ ~TookRemote
            /\ ( SessionState' # "Active" /\ ~TookCancel ) =>
                    /\ TookIdle
                    /\ rd'.n = 1
                    /\ ~GetBit(rd'.status, MayRecv)
                    /\ peerClosed
            /\ ( TookRelay \/ TookRemote ) =>
                    /\ SessionState' = "Active"
                    /\ handle' = "open"
                    /\ closes' = 0
         ]_vars
    /\ []( rd.kind = "status" => branch = "idle" )
    /\ []( ( peerClosed /\ branch \in {"stdin", "remote"} ) =>
                ( SessionState = "Active" /\ handle = "open" ) )

\* The remote end has closed and the poll reported the socket ready: the read
\* returned no bytes and the session is still Active, its handle open.
C23_Witness ==
    /\ peerClosed
    /\ pc = "engine"
    /\ branch = "remote"
    /\ rd = [kind |-> "data", n |-> 0, status |-> 0]
    /\ data = <<>>
    /\ handle = "open"
    /\ closes = 0

====
